---- MODULE Spec2Model ----
(***************************************************************************)
(* A model of miuchan/software-design-simulator.                           *)
(*                                                                         *)
(*  - simulator/expression.py: the lexer _tokenise, the recursive descent  *)
(*    parser _Parser (one frame of `stack` per active method call) and     *)
(*    the entry point evaluate_expression.                                 *)
(*  - simulator/project.py: Phase.sample_duration, ProjectSimulator.       *)
(*                                                                         *)
(* Python floats are modelled as exact rationals [num, den] in lowest      *)
(* terms (den > 0): rounding, infinities and NaN are outside the model.    *)
(* The interpreter's recursion limit is outside the model as well: the     *)
(* call stack is unbounded.                                                *)
(***************************************************************************)
EXTENDS Integers, Sequences, FiniteSets, TLC

VARIABLES
    source,     \* the argument of evaluate_expression, a sequence of characters
    phase,      \* "start" | "parse" | "done" | "error": position of the call
    tokens,     \* _Parser._tokens
    index,      \* _Parser._index (0-based, as in the code)
    stack,      \* active parser method calls, innermost last
    ret,        \* value returned by the call that returned last
    result,     \* value returned by evaluate_expression (when phase = "done")
    raised,     \* exception that left evaluate_expression (when phase = "error")
    prev,       \* previous call of evaluate_expression made by the caller
    simulator,  \* "none" | "built" | "rejected": the ProjectSimulator object
    ctor,       \* arguments of the call of ProjectSimulator(...)
    phases,     \* ProjectSimulator._phases
    team_size,  \* ProjectSimulator.team_size
    cost_per_day,   \* ProjectSimulator.cost_per_day
    call,       \* the last call of simulate: its argument and position
    day_cursor, \* local of simulate
    outcomes,   \* local of simulate
    quality_score,  \* local of simulate
    report,     \* what the last call of simulate returned
    failure     \* exception raised by the last call on the simulator

exprVars == <<source, phase, tokens, index, stack, ret, result, raised, prev>>
projVars == <<simulator, ctor, phases, team_size, cost_per_day, call, day_cursor,
              outcomes, quality_score, report, failure>>
vars == <<exprVars, projVars>>

-----------------------------------------------------------------------------
(* Bounds of the model.                                                    *)

\* longest input made of arbitrary characters
MaxLen == 4
\* most operators and parenthesis pairs in a generated well-formed input
MaxNodes == 3
\* the same two bounds for the inputs of the fair specification
MaxLiveLen == 3
MaxLiveNodes == 2
\* most phases of a simulator
MaxPhases == 3

-----------------------------------------------------------------------------
(* Numbers.                                                                *)

Abs(n) == IF n < 0 THEN -n ELSE n

RECURSIVE GCD(_, _)
GCD(a, b) == IF b = 0 THEN a ELSE GCD(b, a % b)

\* the rational n/d (d # 0) in lowest terms with a positive denominator
Norm(n, d) ==
    LET s == IF d < 0 THEN -1 ELSE 1
        g == GCD(Abs(n), Abs(d))
    IN  [num |-> (s * n) \div g, den |-> (s * d) \div g]

Zero == [num |-> 0, den |-> 1]

FAdd(a, b) == Norm(a.num * b.den + b.num * a.den, a.den * b.den)
FSub(a, b) == Norm(a.num * b.den - b.num * a.den, a.den * b.den)
FMul(a, b) == Norm(a.num * b.num, a.den * b.den)
FDiv(a, b) == Norm(a.num * b.den, a.den * b.num)
FNeg(a) == [num |-> -a.num, den |-> a.den]

-----------------------------------------------------------------------------
(* The lexer.                                                              *)

Digits == {"0", "1", "2", "3", "4", "5", "6", "7", "8", "9"}
DigitValue(c) ==
    CASE c = "0" -> 0 [] c = "1" -> 1 [] c = "2" -> 2 [] c = "3" -> 3
      [] c = "4" -> 4 [] c = "5" -> 5 [] c = "6" -> 6 [] c = "7" -> 7
      [] c = "8" -> 8 [] c = "9" -> 9

IsSpace(c) == c \in {" "}
IsDigit(c) == c \in Digits
OperatorChars == {"+", "-", "*", "/", "(", ")"}

RECURSIVE Pow10(_)
Pow10(k) == IF k = 0 THEN 1 ELSE 10 * Pow10(k - 1)

RECURSIVE IntOf(_)
IntOf(digs) ==
    IF digs = <<>> THEN 0
    ELSE IntOf(SubSeq(digs, 1, Len(digs) - 1)) * 10 + DigitValue(digs[Len(digs)])

\* float(literal) for a literal made of digits and points: does it convert
FloatValid(literal) ==
    /\ Cardinality({i \in 1..Len(literal) : literal[i] = "."}) <= 1
    /\ \E i \in 1..Len(literal) : IsDigit(literal[i])

\* float(literal) for a literal that converts
Float(literal) ==
    LET points == {i \in 1..Len(literal) : literal[i] = "."}
        decimals == IF points = {} THEN 0
                    ELSE Len(literal) - (CHOOSE i \in points : TRUE)
    IN  Norm(IntOf(SelectSeq(literal, IsDigit)), Pow10(decimals))

\* the inner while loop of _tokenise: the 0-based index after the run
RECURSIVE ScanNumber(_, _)
ScanNumber(src, i) ==
    IF i < Len(src) /\ (IsDigit(src[i + 1]) \/ src[i + 1] = ".")
    THEN ScanNumber(src, i + 1)
    ELSE i

EOFToken == [kind |-> "EOF", value |-> ""]

\* the token list _tokenise returns once the scan reaches the end
TokeniseEndMissingEOF(toks) == toks
TokeniseEnd(toks) == Append(toks, EOFToken)

\* a whitespace character met by _tokenise is skipped
SkipsSpaceNever(c) == FALSE
SkipsSpace(c) == IsSpace(c)

\* _tokenise from the 0-based position i on, with toks produced so far
RECURSIVE Tokenise(_, _, _)
Tokenise(src, i, toks) ==
    IF i >= Len(src)
    THEN [ok |-> TRUE, tokens |-> TokeniseEnd(toks), msg |-> ""]
    ELSE LET char == src[i + 1] IN
         IF SkipsSpace(char) THEN Tokenise(src, i + 1, toks)
         ELSE IF char \in OperatorChars
         THEN Tokenise(src, i + 1, Append(toks, [kind |-> char, value |-> char]))
         ELSE IF IsDigit(char) \/ char = "."
         THEN LET end == ScanNumber(src, i + 1)
                  literal == SubSeq(src, i + 1, end)
              IN  IF FloatValid(literal)
                  THEN Tokenise(src, end,
                           Append(toks, [kind |-> "NUMBER", value |-> Float(literal)]))
                  ELSE [ok |-> FALSE, tokens |-> <<>>, msg |-> "Invalid number literal"]
         ELSE [ok |-> FALSE, tokens |-> <<>>, msg |-> "Unexpected character"]

\* expression.strip() == ""
IsBlank(src) == \A i \in 1..Len(src) : IsSpace(src[i])

-----------------------------------------------------------------------------
(* Inputs.                                                                 *)

Chars == {" ", "0", "2", ".", "+", "-", "*", "/", "(", ")", "x"}

RECURSIVE Strings(_)
Strings(n) ==
    IF n = 0 THEN {<<>>}
    ELSE LET shorter == Strings(n - 1)
         IN  shorter \cup {Append(s, c) : s \in {t \in shorter : Len(t) = n - 1}, c \in Chars}

\* the sentences of  E ::= 2 | (E) | +E | -E | E+E | E-E | E*E | E/E  that
\* have exactly n operators and parenthesis pairs
RECURSIVE Sentences(_)
Sentences(n) ==
    IF n = 0 THEN {<<"2">>}
    ELSE {<<"(">> \o s \o <<")">> : s \in Sentences(n - 1)}
         \cup {<<u>> \o s : u \in {"+", "-"}, s \in Sentences(n - 1)}
         \cup UNION {{l \o <<b>> \o r : l \in Sentences(k), r \in Sentences(n - 1 - k),
                                        b \in {"+", "-", "*", "/"}} : k \in 0..(n - 1)}

Inputs == Strings(MaxLen) \cup UNION {Sentences(n) : n \in 0..MaxNodes}
LiveInputs == Strings(MaxLiveLen) \cup UNION {Sentences(n) : n \in 0..MaxLiveNodes}

-----------------------------------------------------------------------------
(* The parser.                                                             *)

NoError == [type |-> "", msg |-> ""]
ValueError(m) == [type |-> "ValueError", msg |-> m]
IndexError == [type |-> "IndexError", msg |-> "list index out of range"]
ZeroDivisionError == [type |-> "ZeroDivisionError", msg |-> "float division by zero"]

Frame(proc) == [proc |-> proc, pc |-> "enter", value |-> Zero, op |-> ""]
Top == stack[Len(stack)]

\* _Parser._current: self._tokens[self._index]
InRange == index < Len(tokens)
Current == tokens[index + 1]

\* an exception leaves the parser and evaluate_expression
Raise(exc) ==
    /\ phase' = "error"
    /\ raised' = exc
    /\ stack' = <<>>
    /\ UNCHANGED <<source, tokens, index, ret, result, prev>>
    /\ UNCHANGED projVars

\* the running method moves to pc, keeps value v and operator op, and calls proc
Call(proc, pc, v, op, cursor) ==
    /\ stack' = Append([stack EXCEPT ![Len(stack)] =
                            [proc |-> Top.proc, pc |-> pc, value |-> v, op |-> op]],
                       Frame(proc))
    /\ index' = cursor
    /\ UNCHANGED <<source, phase, tokens, ret, result, raised, prev>>
    /\ UNCHANGED projVars

\* the running method returns v to its caller
Return(v, cursor) ==
    /\ stack' = SubSeq(stack, 1, Len(stack) - 1)
    /\ ret' = v
    /\ index' = cursor
    /\ IF Len(stack) = 1
       THEN phase' = "done" /\ result' = v
       ELSE UNCHANGED <<phase, result>>
    /\ UNCHANGED <<source, tokens, raised, prev>>
    /\ UNCHANGED projVars

\* _consume(kind) accepts the current token
ConsumeAcceptsAny(kind) == TRUE
ConsumeAccepts(kind) == Current.kind = kind

\* the cursor after _consume has accepted the token at cursor i
ConsumedStuck(i) == i
Consumed(i) == i + 1

\* evaluate_expression up to the call of parser.parse()
EvaluateExpression ==
    /\ phase = "start"
    /\ IF source = <<>> \/ IsBlank(source)
       THEN /\ phase' = "error"
            /\ raised' = ValueError("Expression must be a non-empty string")
            /\ UNCHANGED <<tokens, index, stack>>
       ELSE LET t == Tokenise(source, 0, <<>>) IN
            IF t.ok
            THEN /\ tokens' = t.tokens
                 /\ index' = 0
                 /\ stack' = <<Frame("parse")>>
                 /\ phase' = "parse"
                 /\ UNCHANGED raised
            ELSE /\ phase' = "error"
                 /\ raised' = ValueError(t.msg)
                 /\ UNCHANGED <<tokens, index, stack>>
    /\ UNCHANGED <<source, ret, result, prev>>
    /\ UNCHANGED projVars

\* the check parse makes once _parse_expression has returned
TrailingTokensIgnored == FALSE
TrailingTokens == Current.kind # "EOF"

\* _Parser.parse
Parse ==
    /\ phase = "parse"
    /\ Top.proc = "parse"
    /\ IF Top.pc = "enter"
       THEN Call("expression", "value", Zero, "", index)
       ELSE IF ~InRange THEN Raise(IndexError)
       ELSE IF TrailingTokens
       THEN Raise(ValueError("Unexpected trailing tokens in expression"))
       ELSE Return(ret, index)

\* the while loop of _parse_expression, entered with the value folded so far
ExpressionLoop(value) ==
    IF ~InRange THEN Raise(IndexError)
    ELSE IF Current.kind \in {"+", "-"}
    THEN IF ConsumeAccepts(Current.kind)
         THEN Call("term", "rhs", value, Current.kind, Consumed(index))
         ELSE Raise(ValueError("Expected token"))
    ELSE Return(value, index)

\* value += rhs / value -= rhs
ExpressionFoldRight(value, op, rhs) == IF op = "+" THEN FSub(value, rhs) ELSE FAdd(value, rhs)
ExpressionFold(value, op, rhs) == IF op = "+" THEN FAdd(value, rhs) ELSE FSub(value, rhs)

\* _Parser._parse_expression
ParseExpression ==
    /\ phase = "parse"
    /\ Top.proc = "expression"
    /\ IF Top.pc = "enter" THEN Call("term", "value", Zero, "", index)
       ELSE IF Top.pc = "value" THEN ExpressionLoop(ret)
       ELSE ExpressionLoop(ExpressionFold(Top.value, Top.op, ret))

\* the while loop of _parse_term, entered with the value folded so far
TermLoop(value) ==
    IF ~InRange THEN Raise(IndexError)
    ELSE IF Current.kind \in {"*", "/"}
    THEN IF ConsumeAccepts(Current.kind)
         THEN Call("factor", "rhs", value, Current.kind, Consumed(index))
         ELSE Raise(ValueError("Expected token"))
    ELSE Return(value, index)

\* the guard of the division in _parse_term: rhs == 0
DivisorIsZeroNever(rhs) == FALSE
DivisorIsZero(rhs) == rhs.num = 0

\* _Parser._parse_term
ParseTerm ==
    /\ phase = "parse"
    /\ Top.proc = "term"
    /\ IF Top.pc = "enter" THEN Call("factor", "value", Zero, "", index)
       ELSE IF Top.pc = "value" THEN TermLoop(ret)
       ELSE IF Top.op = "*" THEN TermLoop(FMul(Top.value, ret))
       ELSE IF DivisorIsZero(ret)
       THEN Raise(ValueError("Division by zero in expression"))
       ELSE IF ret.num = 0 THEN Raise(ZeroDivisionError)
       ELSE TermLoop(FDiv(Top.value, ret))

\* the value _parse_factor returns for a signed factor
SignedIgnored(op, value) == value
Signed(op, value) == IF op = "+" THEN value ELSE FNeg(value)

\* _Parser._parse_factor
ParseFactor ==
    /\ phase = "parse"
    /\ Top.proc = "factor"
    /\ IF Top.pc = "enter"
       THEN IF ~InRange THEN Raise(IndexError)
            ELSE IF Current.kind \in {"+", "-"}
            THEN IF ConsumeAccepts(Current.kind)
                 THEN Call("factor", "signed", Zero, Current.kind, Consumed(index))
                 ELSE Raise(ValueError("Expected token"))
            ELSE Call("primary", "primary", Zero, "", index)
       ELSE IF Top.pc = "signed" THEN Return(Signed(Top.op, ret), index)
       ELSE Return(ret, index)

\* _Parser._parse_primary
ParsePrimary ==
    /\ phase = "parse"
    /\ Top.proc = "primary"
    /\ IF ~InRange THEN Raise(IndexError)
       ELSE IF Top.pc = "enter"
       THEN IF Current.kind = "NUMBER"
            THEN IF ConsumeAccepts("NUMBER")
                 THEN Return(Current.value, Consumed(index))
                 ELSE Raise(ValueError("Expected token"))
            ELSE IF Current.kind = "("
            THEN IF ConsumeAccepts("(")
                 THEN Call("expression", "close", Zero, "", Consumed(index))
                 ELSE Raise(ValueError("Expected token"))
            ELSE Raise(ValueError("Unexpected token"))
       ELSE IF ConsumeAccepts(")")
       THEN Return(ret, Consumed(index))
       ELSE Raise(ValueError("Expected token"))

-----------------------------------------------------------------------------
(* The caller.                                                             *)

Terminal == phase \in {"done", "error"}

\* what the caller of evaluate_expression observes
Outcome == [returned |-> phase = "done",
            value |-> IF phase = "done" THEN result ELSE Zero,
            error |-> raised.type]

NoCall == [source |-> <<>>, made |-> FALSE, outcome |-> [returned |-> FALSE, value |-> Zero, error |-> ""]]

HasSpace(src) == \E i \in 1..Len(src) : IsSpace(src[i])
NotSpace(c) == ~IsSpace(c)
RemoveSpace(src) == SelectSeq(src, NotSpace)

\* the caller evaluates a string and then the same string without its
\* whitespace; every call builds a new parser
NextCall ==
    /\ Terminal
    /\ ~prev.made
    /\ HasSpace(source)
    /\ prev' = [source |-> source, made |-> TRUE, outcome |-> Outcome]
    /\ source' = RemoveSpace(source)
    /\ phase' = "start"
    /\ tokens' = <<>>
    /\ index' = 0
    /\ stack' = <<>>
    /\ ret' = Zero
    /\ result' = Zero
    /\ raised' = NoError
    /\ UNCHANGED projVars

\* no call of evaluate_expression has started
ExprStart ==
    /\ phase = "start"
    /\ tokens = <<>>
    /\ index = 0
    /\ stack = <<>>
    /\ ret = Zero
    /\ result = Zero
    /\ raised = NoError
    /\ prev = NoCall

-----------------------------------------------------------------------------
(* The project simulator.  Days, costs and quality are whole numbers here. *)

\* the phases a simulator is built from
PhaseSet ==
    {[name |-> "Requirements", base_days |-> 1, complexity_multiplier |-> 1,
      variability |-> 2, quality_impact |-> 40],
     [name |-> "Design", base_days |-> 2, complexity_multiplier |-> 0,
      variability |-> 0, quality_impact |-> -80],
     [name |-> "Deployment", base_days |-> -1, complexity_multiplier |-> 0,
      variability |-> 1, quality_impact |-> -5]}

RECURSIVE PhaseLists(_)
PhaseLists(n) ==
    IF n = 0 THEN {<<>>}
    ELSE LET shorter == PhaseLists(n - 1)
         IN  shorter \cup {Append(l, p) : l \in {t \in shorter : Len(t) = n - 1}, p \in PhaseSet}

TeamSizes == {-1, 0, 1, 3}
Costs == {-1, 0, 2}
Complexities == {-1, 0, 1, 2}

Max(a, b) == IF a >= b THEN a ELSE b
Min(a, b) == IF a <= b THEN a ELSE b

\* base_days + complexity_multiplier * max(complexity - 1.0, 0.0)
Expected(p, complexity) == p.base_days + p.complexity_multiplier * Max(complexity - 1, 0)

\* the values rng.uniform(a, b) can return
Uniform(a, b) == Min(a, b)..Max(a, b)

\* Phase.sample_duration, for the offset the generator draws
SampleDurationUnclamped(p, complexity, offset) == Expected(p, complexity) + offset
SampleDuration(p, complexity, offset) == Max(Expected(p, complexity) + offset, 0)

\* the checks of ProjectSimulator.__init__ and of simulate
TeamSizeRejectedBelowZero(t) == t < 0
TeamSizeRejected(t) == t <= 0
CostRejected(c) == c < 0
ComplexityRejected(c) == c <= 0

\* max(min(quality_score, 100.0), 0.0)
ClampQualityAtZero(q) == Max(q, 0)
ClampQuality(q) == Max(Min(q, 100), 0)

NoReport == [made |-> FALSE, total_days |-> 0, budget_used |-> 0, quality_score |-> 0,
             timeline |-> <<>>]
NoSimulate == [made |-> FALSE, complexity |-> 0, pc |-> "idle"]

\* ProjectSimulator(ps, team_size=t, cost_per_day=c)
Construct ==
    /\ simulator = "none"
    /\ \E ps \in PhaseLists(MaxPhases), t \in TeamSizes, c \in Costs :
        /\ ctor' = [phases |-> ps, team_size |-> t, cost_per_day |-> c]
        /\ IF ps = <<>>
           THEN /\ failure' = ValueError("ProjectSimulator requires at least one phase")
                /\ simulator' = "rejected"
                /\ UNCHANGED <<phases, team_size, cost_per_day>>
           ELSE IF TeamSizeRejected(t)
           THEN /\ failure' = ValueError("team_size must be positive")
                /\ simulator' = "rejected"
                /\ UNCHANGED <<phases, team_size, cost_per_day>>
           ELSE IF CostRejected(c)
           THEN /\ failure' = ValueError("cost_per_day cannot be negative")
                /\ simulator' = "rejected"
                /\ UNCHANGED <<phases, team_size, cost_per_day>>
           ELSE /\ simulator' = "built"
                /\ phases' = ps
                /\ team_size' = t
                /\ cost_per_day' = c
                /\ UNCHANGED failure
    /\ UNCHANGED <<call, day_cursor, outcomes, quality_score, report>>
    /\ UNCHANGED exprVars

\* simulate(complexity) up to its loop
SimulateBegin ==
    /\ simulator = "built"
    /\ call.pc = "idle"
    /\ \E complexity \in Complexities :
        IF ComplexityRejected(complexity)
        THEN /\ call' = [made |-> TRUE, complexity |-> complexity, pc |-> "idle"]
             /\ failure' = ValueError("complexity must be positive")
             /\ UNCHANGED <<day_cursor, outcomes, quality_score>>
        ELSE /\ call' = [made |-> TRUE, complexity |-> complexity, pc |-> "loop"]
             /\ failure' = NoError
             /\ day_cursor' = 0
             /\ outcomes' = <<>>
             /\ quality_score' = 70
    /\ report' = NoReport
    /\ UNCHANGED <<simulator, ctor, phases, team_size, cost_per_day>>
    /\ UNCHANGED exprVars

\* one iteration of the loop of simulate
SimulatePhase ==
    /\ call.pc = "loop"
    /\ Len(outcomes) < Len(phases)
    /\ LET p == phases[Len(outcomes) + 1]
           planned == Expected(p, call.complexity)
           spread == Expected(p, call.complexity) * p.variability
       IN  \E offset \in Uniform(-spread, spread) :
              LET actual == SampleDuration(p, call.complexity, offset)
                  start_day == day_cursor
                  end_day == start_day + actual
              IN  /\ quality_score' = quality_score + p.quality_impact
                  /\ outcomes' = Append(outcomes,
                        [name |-> p.name, planned_days |-> planned, actual_days |-> actual,
                         start_day |-> start_day, end_day |-> end_day,
                         quality_delta |-> p.quality_impact])
                  /\ day_cursor' = end_day
    /\ UNCHANGED <<simulator, ctor, phases, team_size, cost_per_day, call, report, failure>>
    /\ UNCHANGED exprVars

\* simulate after its loop
SimulateReturn ==
    /\ call.pc = "loop"
    /\ Len(outcomes) = Len(phases)
    /\ report' = [made |-> TRUE,
                  total_days |-> day_cursor,
                  budget_used |-> day_cursor * team_size * cost_per_day,
                  quality_score |-> ClampQuality(quality_score),
                  timeline |-> outcomes]
    /\ call' = [call EXCEPT !.pc = "idle"]
    /\ day_cursor' = 0
    /\ outcomes' = <<>>
    /\ quality_score' = 0
    /\ UNCHANGED <<simulator, ctor, phases, team_size, cost_per_day, failure>>
    /\ UNCHANGED exprVars

\* no simulator has been built
ProjStart ==
    /\ simulator = "none"
    /\ ctor = [phases |-> <<>>, team_size |-> 0, cost_per_day |-> 0]
    /\ phases = <<>>
    /\ team_size = 0
    /\ cost_per_day = 0
    /\ call = NoSimulate
    /\ day_cursor = 0
    /\ outcomes = <<>>
    /\ quality_score = 0
    /\ report = NoReport
    /\ failure = NoError

InitProject ==
    /\ source = <<>>
    /\ ExprStart
    /\ ProjStart

NextProject ==
    \/ Construct
    \/ SimulateBegin
    \/ SimulatePhase
    \/ SimulateReturn

-----------------------------------------------------------------------------
(* The caller of evaluate_expression, continued.                           *)
Init ==
    /\ source \in Inputs
    /\ ExprStart
    /\ ProjStart

Next ==
    \/ EvaluateExpression
    \/ Parse
    \/ ParseExpression
    \/ ParseTerm
    \/ ParseFactor
    \/ ParsePrimary
    \/ NextCall

Spec == Init /\ [][Next]_vars

InitLive ==
    /\ source \in LiveInputs
    /\ ExprStart
    /\ ProjStart

SpecProject == InitProject /\ [][NextProject]_vars

\* evaluate_expression runs on one thread that nothing suspends
FairSpec == InitLive /\ [][Next]_vars /\ WF_vars(Next)

-----------------------------------------------------------------------------
(* The grammar of the module docstring, as a definition of its sentences   *)
(* and of their values: each rule is read as a set of token sequences,     *)
(* with  expression ::= expression ("+" | "-") term | term  and            *)
(* term ::= term ("*" | "/") factor | factor  for the left-to-right        *)
(* grouping.  A value with den = 0 stands for a division by zero.          *)

Sub(s, a, b) == SubSeq(s, a, b)

RECURSIVE IsExpr(_), IsTerm(_), IsFactor(_), IsPrimary(_)

ExprSplits(s) ==
    {i \in 2..(Len(s) - 1) : /\ s[i].kind \in {"+", "-"}
                             /\ IsTerm(Sub(s, i + 1, Len(s)))
                             /\ IsExpr(Sub(s, 1, i - 1))}
TermSplits(s) ==
    {i \in 2..(Len(s) - 1) : /\ s[i].kind \in {"*", "/"}
                             /\ IsFactor(Sub(s, i + 1, Len(s)))
                             /\ IsTerm(Sub(s, 1, i - 1))}

IsExpr(s) == IsTerm(s) \/ ExprSplits(s) # {}
IsTerm(s) == IsFactor(s) \/ TermSplits(s) # {}
IsFactor(s) ==
    \/ Len(s) >= 2 /\ s[1].kind \in {"+", "-"} /\ IsFactor(Tail(s))
    \/ IsPrimary(s)
IsPrimary(s) ==
    \/ Len(s) = 1 /\ s[1].kind = "NUMBER"
    \/ Len(s) >= 3 /\ s[1].kind = "(" /\ s[Len(s)].kind = ")"
                   /\ IsExpr(Sub(s, 2, Len(s) - 1))

DivErr == [num |-> 0, den |-> 0]

RefApply(op, a, b) ==
    IF a.den = 0 \/ b.den = 0 THEN DivErr
    ELSE CASE op = "+" -> Norm(a.num * b.den + b.num * a.den, a.den * b.den)
           [] op = "-" -> Norm(a.num * b.den - b.num * a.den, a.den * b.den)
           [] op = "*" -> Norm(a.num * b.num, a.den * b.den)
           [] op = "/" -> IF b.num = 0 THEN DivErr
                          ELSE Norm(a.num * b.den, a.den * b.num)

RECURSIVE RefExpr(_), RefTerm(_), RefFactor(_)

\* the value of a sentence of the expression rule
RefExpr(s) ==
    IF ExprSplits(s) # {}
    THEN LET i == CHOOSE j \in ExprSplits(s) : TRUE
         IN  RefApply(s[i].kind, RefExpr(Sub(s, 1, i - 1)), RefTerm(Sub(s, i + 1, Len(s))))
    ELSE RefTerm(s)
RefTerm(s) ==
    IF TermSplits(s) # {}
    THEN LET i == CHOOSE j \in TermSplits(s) : TRUE
         IN  RefApply(s[i].kind, RefTerm(Sub(s, 1, i - 1)), RefFactor(Sub(s, i + 1, Len(s))))
    ELSE RefFactor(s)
RefFactor(s) ==
    IF s[1].kind = "+" THEN RefFactor(Tail(s))
    ELSE IF s[1].kind = "-" THEN RefApply("-", Zero, RefFactor(Tail(s)))
    ELSE IF s[1].kind = "NUMBER" THEN s[1].value
    ELSE RefExpr(Sub(s, 2, Len(s) - 1))

\* _tokenise has returned in this call
Tokenised == phase \in {"parse", "done"} \/ (phase = "error" /\ tokens # <<>>)

\* the tokens before the last one
Body == Sub(tokens, 1, Len(tokens) - 1)

Kinds(s) == {s[i].kind : i \in 1..Len(s)}

\* the input of this call is a sentence of the grammar
Sentence == Tokenised /\ IsExpr(Body)

-----------------------------------------------------------------------------
(* Claims about evaluate_expression.                                       *)

\* C1: for every sentence of the grammar without division, evaluate_expression
\* returns the value the grammar gives it: '*' binds tighter than binary
\* '+'/'-', parentheses override, a unary sign binds tightest, and chains of
\* operators of one level group left to right.
C1_MatchesReference ==
    (Terminal /\ Sentence /\ "/" \notin Kinds(Body))
        => (phase = "done" /\ result = RefExpr(Body))

C1_Witness ==
    /\ phase = "done"
    /\ {"*", "(", "+"} \subseteq Kinds(Body)
    /\ "/" \notin Kinds(Body)
    /\ result = [num |-> 8, den |-> 1]

\* C2: a sentence with a division raises exactly when some division in it has
\* a divisor that evaluates to 0, at any nesting level; otherwise (a zero
\* dividend included) it returns the value.
C2_DivisionByZero ==
    (Terminal /\ Sentence /\ "/" \in Kinds(Body))
        => IF RefExpr(Body) = DivErr
           THEN phase = "error" /\ raised = ValueError("Division by zero in expression")
           ELSE phase = "done" /\ result = RefExpr(Body)

C2_Witness ==
    /\ phase = "error"
    /\ raised.msg = "Division by zero in expression"
    /\ Sentence
    /\ "(" \in Kinds(Body)
    /\ \A i \in 1..Len(Body) : Body[i].kind = "NUMBER" => Body[i].value # Zero

\* C3: a value is returned only when the tokens before EOF are one sentence
\* and the cursor is on EOF; every other input raises ValueError, and no call
\* fails with another exception.
C3_OnlySentencesReturn ==
    Terminal =>
        /\ phase = "done" => (Sentence /\ index = Len(tokens) - 1)
        /\ ~Sentence => (phase = "error" /\ raised.type = "ValueError")
        /\ phase = "error" => raised.type = "ValueError"

C3_Witness ==
    /\ phase = "error"
    /\ raised = ValueError("Unexpected trailing tokens in expression")
    /\ index >= 1

\* a number behind a run of unary signs
SignedNumber ==
    /\ Tokenised
    /\ Len(Body) >= 1
    /\ Body[Len(Body)].kind = "NUMBER"
    /\ \A i \in 1..(Len(Body) - 1) : Body[i].kind \in {"+", "-"}

Minuses == Cardinality({i \in 1..Len(Body) : Body[i].kind = "-"})

\* C4: a number behind n unary '-' signs, with unary '+' signs anywhere among
\* them, evaluates to the number if n is even and to its negation if n is odd.
C4_UnarySigns ==
    (Terminal /\ SignedNumber)
        => /\ phase = "done"
           /\ LET number == Body[Len(Body)].value
              IN  result = IF Minuses % 2 = 0 THEN number
                           ELSE [num |-> 0 - number.num, den |-> number.den]

C4_Witness ==
    /\ phase = "done"
    /\ SignedNumber
    /\ Minuses = 2
    /\ "+" \in Kinds(Body)
    /\ result = [num |-> 2, den |-> 1]

IsNumberChar(c) == IsDigit(c) \/ c = "."

\* whitespace stands between two characters of number literals
SplitsNumber(src) ==
    \E i, j \in 1..Len(src) :
        /\ i + 1 < j
        /\ IsNumberChar(src[i])
        /\ IsNumberChar(src[j])
        /\ \A k \in (i + 1)..(j - 1) : IsSpace(src[k])

C6_CursorInRange ==
    /\ Tokenised =>
        /\ Len(tokens) >= 1
        /\ tokens[Len(tokens)].kind = "EOF"
        /\ \A i \in 1..(Len(tokens) - 1) : tokens[i].kind # "EOF"
        /\ 0 <= index
        /\ index <= Len(tokens) - 1
    /\ raised.type # "IndexError"

C6_Witness ==
    /\ phase = "error"
    /\ Tokenised
    /\ Len(tokens) >= 3
    /\ index = Len(tokens) - 1

\* a step that starts a loop iteration of _parse_expression or _parse_term, or
\* a recursive call made by _parse_factor or _parse_primary
Iterates ==
    /\ phase = "parse"
    /\ phase' = "parse"
    /\ Len(stack') = Len(stack) + 1
    /\ stack'[Len(stack)].pc \in {"rhs", "signed", "close"}

\* C9: every call terminates; during a parse the cursor never decreases, a
\* loop iteration or recursive call comes with exactly one consumed token, and
\* the cursor, which counts the consumed tokens, stays below len(tokens).
C9_Terminates ==
    /\ (phase = "start") ~> Terminal
    /\ [][phase = "parse" => /\ index' >= index
                             /\ index' <= index + 1
                             /\ index' <= Len(tokens) - 1]_vars
    /\ [][Iterates => index' = index + 1]_vars

C9_Witness ==
    /\ phase = "done"
    /\ Len(stack) = 0
    /\ index = 5
    /\ Len(tokens) = 6

-----------------------------------------------------------------------------
(* Claims about ProjectSimulator.                                          *)

RECURSIVE SumImpacts(_)
SumImpacts(ps) == IF ps = <<>> THEN 0 ELSE ps[1].quality_impact + SumImpacts(Tail(ps))

\* C7: the quality_score of a report is 70 plus the sum of the phases'
\* quality_impact, brought into [0, 100].
C7_QualityInRange ==
    report.made =>
        /\ 0 <= report.quality_score
        /\ report.quality_score <= 100
        /\ LET q == 70 + SumImpacts(phases)
           IN  report.quality_score = IF q > 100 THEN 100 ELSE IF q < 0 THEN 0 ELSE q

C7_Witness ==
    /\ report.made
    /\ 70 + SumImpacts(phases) > 100
    /\ \E i \in 1..Len(phases) : phases[i].quality_impact < 0
    /\ report.quality_score = 100

\* C8: the constructor raises ValueError exactly for an empty phase list, a
\* team_size <= 0 or a cost_per_day < 0; simulate raises ValueError exactly
\* for a complexity <= 0, returns no report then, and no call of simulate
\* changes the simulator's phases, team_size or cost_per_day.
C8_InputsValidated ==
    /\ simulator # "none" =>
        (simulator = "rejected"
            <=> (ctor.phases = <<>> \/ ctor.team_size <= 0 \/ ctor.cost_per_day < 0))
    /\ simulator = "rejected" => (failure.type = "ValueError" /\ ~call.made)
    /\ simulator = "built" =>
        /\ phases = ctor.phases
        /\ team_size = ctor.team_size
        /\ cost_per_day = ctor.cost_per_day
    /\ call.made =>
        IF call.complexity <= 0
        THEN /\ failure.type = "ValueError"
             /\ call.pc = "idle"
             /\ ~report.made
             /\ outcomes = <<>>
        ELSE failure = NoError

C8_Witness ==
    /\ simulator = "built"
    /\ call.made
    /\ call.complexity = 0
    /\ failure = ValueError("complexity must be positive")
    /\ ~report.made

\* C10: the timeline has one entry per phase in order; it starts at day 0,
\* each entry starts where the previous one ends, lasts actual_days >= 0 and
\* ends at start_day + actual_days; total_days is the last end_day and
\* budget_used = total_days * team_size * cost_per_day.
C10_TimelineChained ==
    report.made =>
        LET t == report.timeline IN
        /\ Len(t) = Len(phases)
        /\ \A i \in 1..Len(t) :
            /\ t[i].name = phases[i].name
            /\ t[i].start_day = IF i = 1 THEN 0 ELSE t[i - 1].end_day
            /\ t[i].actual_days >= 0
            /\ t[i].end_day = t[i].start_day + t[i].actual_days
            /\ t[i].end_day >= t[i].start_day
        /\ report.total_days = t[Len(t)].end_day
        /\ report.budget_used = report.total_days * team_size * cost_per_day

C10_Witness ==
    /\ report.made
    /\ Len(report.timeline) = 3
    /\ report.timeline[1].actual_days = 0
    /\ report.timeline[1].planned_days < 0
    /\ report.timeline[2].start_day = 0
    /\ report.timeline[2].end_day > 0
    /\ report.budget_used > 0

====
